---------------------------- MODULE Spec2Model ----------------------------
(***************************************************************************)
(* A model of the VAE-with-normalizing-flows orchestration of              *)
(* models/vae.py (VAE, OrthogonalSylvesterVAE, HouseholderSylvesterVAE,    *)
(* TriangularSylvesterVAE) and of the experiment driver main_experiment.py *)
(* (parse_args, init_model, init_optimizer, main).                         *)
(*                                                                         *)
(* Real numbers are fixed-point integers: the real r is the integer        *)
(* r * Scale, Scale = 2^24 (the precision of a float32 mantissa).  A       *)
(* tensor that holds NaN is a record whose nan field is TRUE.              *)
(***************************************************************************)
EXTENDS Integers, Sequences, FiniteSets, TLC

(***************************************************************************)
(* Bounds of the model.                                                    *)
(***************************************************************************)
MaxZ == 2

MaxFlows == 2

MaxBatch == 2

MaxHouseholder == 2

MaxComponents == 11

(***************************************************************************)
(* Fixed-point arithmetic.                                                 *)
(***************************************************************************)
Half == 64 * 64

Scale == Half * Half

Abs(a) == IF a < 0 THEN -a ELSE a

\* a * b of two fixed-point numbers, rounded to the nearest unit; the product
\* is split so that no intermediate leaves 32 bits.
FMul(a, b) ==
    LET ah == a \div Half
        al == a % Half
        bh == b \div Half
        bl == b % Half
        lo == al * bl
        mid == ah * bl + al * bh + (lo \div Half)
        rem == (mid % Half) * Half + (lo % Half)
        hi == ah * bh + (mid \div Half)
    IN  IF 2 * rem >= Scale THEN hi + 1 ELSE hi

RECURSIVE SqrtBits(_, _, _)
\* the largest r = acc + (bits below bit) with r * r <= n
SqrtBits(n, bit, acc) ==
    IF bit = 0 THEN acc
    ELSE LET cand == acc + bit
         IN  IF cand <= 46340 /\ cand * cand <= n
             THEN SqrtBits(n, bit \div 2, cand)
             ELSE SqrtBits(n, bit \div 2, acc)

\* floor(sqrt(n)) of a natural number n < 2^31
ISqrt(n) == SqrtBits(n, 32768, 0)

RECURSIVE SqrtScaled(_, _, _)
\* digit-by-digit square root: from (r, rem) with rem = n - r*r, `bits` more
\* binary digits of sqrt(n)
SqrtScaled(r, rem, bits) ==
    IF bits = 0 THEN r
    ELSE LET rem4 == 4 * rem
             t == 4 * r + 1
         IN  IF rem4 >= t THEN SqrtScaled(2 * r + 1, rem4 - t, bits - 1)
                          ELSE SqrtScaled(2 * r, rem4, bits - 1)

\* sqrt(n) as a fixed-point number, n a natural number below 1024
FSqrtNat(n) == LET r == ISqrt(n) IN SqrtScaled(r, n - r * r, 24)

RECURSIVE DivBits(_, _, _, _)
\* binary long division: `bits` more digits of rem / d appended to acc
DivBits(rem, d, acc, bits) ==
    IF bits = 0 THEN acc
    ELSE IF 2 * rem >= d THEN DivBits(2 * rem - d, d, 2 * acc + 1, bits - 1)
                         ELSE DivBits(2 * rem, d, 2 * acc, bits - 1)

\* the integer n divided by the fixed-point number d > 0, as a fixed-point
\* number: floor(|n| * Scale * Scale / d) with the sign of n
FDivNat(n, d) ==
    LET x == Abs(n) * Scale
        r == DivBits(x % d, d, x \div d, 24)
    IN  IF n < 0 THEN -r ELSE r

(***************************************************************************)
(* Matrices: a Z x M matrix is a function [0..Z-1 -> [0..M-1 -> Int]] of   *)
(* fixed-point entries; a batch entry is [nan, m], nan for a matrix whose  *)
(* entries are NaN.                                                        *)
(***************************************************************************)
RECURSIVE SumF(_, _)
\* f[0] + ... + f[n-1]
SumF(f, n) == IF n = 0 THEN 0 ELSE f[n - 1] + SumF(f, n - 1)

ZeroMat(Z, M) == [i \in 0..(Z - 1) |-> [j \in 0..(M - 1) |-> 0]]

NaNMat(Z, M) == [nan |-> TRUE, m |-> ZeroMat(Z, M)]

\* torch.bmm(amat.transpose(2, 1), amat) for one Z x M matrix: an M x M matrix
BmmTA(a, Z, M) ==
    [i \in 0..(M - 1) |-> [j \in 0..(M - 1) |->
        SumF([r \in 0..(Z - 1) |-> FMul(a[r][i], a[r][j])], Z)]]

\* torch.bmm(a, t) for one R x N matrix a and one N x C matrix t
Bmm(a, t, R, N, C) ==
    [r \in 0..(R - 1) |-> [j \in 0..(C - 1) |->
        SumF([i \in 0..(N - 1) |-> FMul(a[r][i], t[i][j])], N)]]

\* one update of the iterative orthogonalization, amat <- amat (I + (I - amat^T amat) / 2)
OrthoUpdate(a, Z, M) ==
    LET ata == BmmTA(a, Z, M)
        tmp == [i \in 0..(M - 1) |-> [j \in 0..(M - 1) |->
                   LET e == IF i = j THEN Scale ELSE 0
                   IN  e + FMul(Scale \div 2, e - ata[i][j])]]
    IN  Bmm(a, tmp, Z, M, M)

\* sqrt of the sum of the squares of the entries of an M x M matrix: fine below
\* 2^-11, else computed on the entries divided by Half
FrobNorm(t, M) ==
    LET big  == \E i, j \in 0..(M - 1) : Abs(t[i][j]) >= 2 * Half
        sq(x) == IF big THEN (x \div Half) * (x \div Half) ELSE x * x
        norms2 == SumF([i \in 0..(M - 1) |->
                        SumF([j \in 0..(M - 1) |-> sq(t[i][j])], M)], M)
    IN  IF big THEN ISqrt(norms2) * Half ELSE ISqrt(norms2)

\* the orthogonality error ||amat^T amat - I|| of one matrix
OrthoError(a, Z, M) ==
    LET ata  == BmmTA(a, Z, M)
        test == [i \in 0..(M - 1) |-> [j \in 0..(M - 1) |->
                    ata[i][j] - (IF i = j THEN Scale ELSE 0)]]
    IN  FrobNorm(test, M)

\* torch.div(q, torch.norm(q)) of one flat row q (integers) of length Z * M,
\* resized to Z x M; 0 / 0 is NaN
NormalizeRow(q, Z, M) ==
    LET n2 == SumF([n \in 0..(Z * M - 1) |-> q[n] * q[n]], Z * M)
        norm == FSqrtNat(n2)
    IN  IF n2 = 0 THEN NaNMat(Z, M)
        ELSE [nan |-> FALSE,
              m |-> [i \in 0..(Z - 1) |-> [j \in 0..(M - 1) |-> FDivNat(q[i * M + j], norm)]]]

(***************************************************************************)
(* Program constants of OrthogonalSylvesterVAE.__init__.  The tolerance    *)
(* self.cond is kept in units of 1e-6.                                     *)
(***************************************************************************)
Steps == 100

CondFull == 10

CondPartial == 1

Micro == 1000 * 1000

(***************************************************************************)
(* Values the model draws its inputs from.                                 *)
(***************************************************************************)
Classes == {"VAE", "OrthogonalSylvesterVAE", "HouseholderSylvesterVAE",
            "TriangularSylvesterVAE"}

\* one token per sample of the input batch x, named after the amor_q output
\* the encoder produces for it
XKinds == {"eye", "mix", "ones", "zero"}

\* values of the sampled noise eps / of a latent vector z (one token per batch)
ZVals == {0, 1}

\* what a flow transform may return: (z_k, log_det_jacobian)
FlowOuts == {[z |-> 0, ldj |-> -1], [z |-> 1, ldj |-> 2]}

\* entry n of the amortized output amor_q(h) of a sample of kind `kind`, the
\* output being read as consecutive rows x cols blocks
QVal(kind, n, rows, cols) ==
    LET p == n % (rows * cols)
        diag == IF (p \div cols) = (p % cols) THEN 1 ELSE 0
    IN  CASE kind = "eye"  -> diag
          [] kind = "zero" -> 0
          [] kind = "ones" -> 1
          [] OTHER         -> ((7 * n + 3) % 5) - 2

(***************************************************************************)
(* State.                                                                  *)
(***************************************************************************)
VARIABLES
    self,       \* the fields __init__ set on the object (cls = "none": not yet run)
    log_det_j,  \* self.log_det_j
    pc,         \* position: "new", "ctor_failed", "idle", "ortho", "flow",
                \*           "ortho_exit", "returned", "raised"
    x,          \* forward's argument: the batch, one token per sample
    enc,        \* what encode returned in the running forward call
    amat,       \* batch_construct_orthogonal: the batch of matrices
    s,          \* batch_construct_orthogonal: iterations of the loop done
    norms,      \* batch_construct_orthogonal: the last measured error per matrix
    max_norm,   \* batch_construct_orthogonal: max_norm
    q_ortho,    \* forward: the matrices batch_construct_orthogonal returned
    z,          \* forward: the list z
    k,          \* forward: the flow loop's index
    calls,      \* history: the calls of flow_k made by the running forward call
    trace,      \* history: "sample" / "flow" / "decode" events of the running call
    ret,        \* what the last forward call returned
    margs,      \* main_experiment: args
    mpc,        \* main_experiment: position in main()
    model,      \* main_experiment: the model init_model built
    optimizer,  \* main_experiment: the optimizer's parameter groups
    merr        \* main_experiment: the error raised

fwdvars == <<self, log_det_j, pc, x, enc, amat, s, norms, max_norm, q_ortho, z, k,
             calls, trace, ret>>

mainvars == <<margs, mpc, model, optimizer, merr>>

vars == <<fwdvars, mainvars>>

(***************************************************************************)
(* Construction: the __init__ of the four classes of models/vae.py.        *)
(***************************************************************************)
NoSelf == [cls |-> "none", z_size |-> 0, num_flows |-> 0, num_ortho_vecs |-> 0,
           num_householder |-> 0, cond |-> 0, steps |-> 0, flip_idx |-> << >>]

\* a NaN scalar / a finite scalar (fixed-point units)
NaNNum == [nan |-> TRUE, v |-> 0]

Num(v) == [nan |-> FALSE, v |-> v]

NoPermute == [none |-> TRUE, idx |-> << >>]

\* no tuple returned yet
NoRet == <<<<"dec", -1>>, << >>, << >>, 0, -1, -1>>

NoEnc == [z_mu |-> << >>, z_var |-> << >>, r1 |-> << >>, r2 |-> << >>,
          q |-> << >>, b |-> << >>]

\* the local state of a forward call that has not started
IdleLocals ==
    /\ x = << >>
    /\ enc = NoEnc
    /\ amat = << >>
    /\ s = 0
    /\ norms = << >>
    /\ max_norm = Num(0)
    /\ q_ortho = << >>
    /\ z = << >>
    /\ k = 0
    /\ calls = << >>
    /\ trace = << >>
    /\ ret = NoRet

\* the arguments a constructor reads from args
CtorArgs == [z_size : 1..MaxZ, num_flows : 0..MaxFlows,
             num_ortho_vecs : (-1)..(MaxZ + 1), num_householder : 0..MaxHouseholder]

\* an ascending range: stop + 1, stop + 2, ..., start
ArangeUp(start, stop) == [i \in 0..(start - stop - 1) |-> stop + 1 + i]

\* torch.arange(start, stop, -1): start, start - 1, ..., stop + 1
ArangeDown(start, stop) == [i \in 0..(start - stop - 1) |-> start - i]

\* VAE.__init__: log_det_j is a zero tensor
VAEInit(args) ==
    /\ pc = "new"
    /\ self' = [NoSelf EXCEPT !.cls = "VAE", !.z_size = args.z_size]
    /\ log_det_j' = 0
    /\ pc' = "idle"
    /\ UNCHANGED <<x, enc, amat, s, norms, max_norm, q_ortho, z, k, calls, trace, ret>>
    /\ UNCHANGED mainvars

\* an assert with >= 0 in place of > 0
OrthoVecsValidOrZero(num_ortho_vecs, z_size) ==
    (num_ortho_vecs <= z_size) /\ (num_ortho_vecs >= 0)

\* the assert of OrthogonalSylvesterVAE.__init__
OrthoVecsValid(num_ortho_vecs, z_size) ==
    (num_ortho_vecs <= z_size) /\ (num_ortho_vecs > 0)

\* one tolerance, 1e-6, for every num_ortho_vecs
CondForUnified(num_ortho_vecs, z_size) == CondPartial

\* self.cond of OrthogonalSylvesterVAE.__init__, in units of 1e-6
CondFor(num_ortho_vecs, z_size) ==
    IF num_ortho_vecs = z_size THEN CondFull ELSE CondPartial

\* OrthogonalSylvesterVAE.__init__: the fields set before the assert, the
\* assert, the tolerance and the iteration cap.  After an AssertionError
\* (pc = "ctor_failed") the caller holds no object
OrthoInit(args) ==
    /\ pc = "new"
    /\ log_det_j' = 0
    /\ IF OrthoVecsValid(args.num_ortho_vecs, args.z_size)
       THEN /\ self' = [NoSelf EXCEPT !.cls = "OrthogonalSylvesterVAE",
                                      !.z_size = args.z_size,
                                      !.num_flows = args.num_flows,
                                      !.num_ortho_vecs = args.num_ortho_vecs,
                                      !.cond = CondFor(args.num_ortho_vecs, args.z_size),
                                      !.steps = Steps]
            /\ pc' = "idle"
       ELSE /\ self' = [NoSelf EXCEPT !.cls = "OrthogonalSylvesterVAE",
                                      !.z_size = args.z_size,
                                      !.num_flows = args.num_flows,
                                      !.num_ortho_vecs = args.num_ortho_vecs]
            /\ pc' = "ctor_failed"
    /\ UNCHANGED <<x, enc, amat, s, norms, max_norm, q_ortho, z, k, calls, trace, ret>>
    /\ UNCHANGED mainvars

\* HouseholderSylvesterVAE.__init__: assert self.num_householder > 0
HouseInit(args) ==
    /\ pc = "new"
    /\ log_det_j' = 0
    /\ IF args.num_householder > 0
       THEN /\ self' = [NoSelf EXCEPT !.cls = "HouseholderSylvesterVAE",
                                      !.z_size = args.z_size,
                                      !.num_flows = args.num_flows,
                                      !.num_householder = args.num_householder]
            /\ pc' = "idle"
       ELSE /\ self' = [NoSelf EXCEPT !.cls = "HouseholderSylvesterVAE",
                                      !.z_size = args.z_size,
                                      !.num_flows = args.num_flows,
                                      !.num_householder = args.num_householder]
            /\ pc' = "ctor_failed"
    /\ UNCHANGED <<x, enc, amat, s, norms, max_norm, q_ortho, z, k, calls, trace, ret>>
    /\ UNCHANGED mainvars

\* TriangularSylvesterVAE.__init__
TriInit(args) ==
    /\ pc = "new"
    /\ log_det_j' = 0
    /\ self' = [NoSelf EXCEPT !.cls = "TriangularSylvesterVAE",
                              !.z_size = args.z_size,
                              !.num_flows = args.num_flows,
                              !.flip_idx = ArangeDown(args.z_size - 1, -1)]
    /\ pc' = "idle"
    /\ UNCHANGED <<x, enc, amat, s, norms, max_norm, q_ortho, z, k, calls, trace, ret>>
    /\ UNCHANGED mainvars

(***************************************************************************)
(* The forward pass.  The encoder and decoder networks and the flow        *)
(* transforms are collaborators: the encoder's outputs are fixed by the    *)
(* sample's token, a flow's outputs are any values.                        *)
(***************************************************************************)
Callable == pc = "idle"

\* the batches x: any size up to MaxBatch; the last sample is of any kind, the
\* samples before it are of kind "eye"
Batches ==
    UNION {{xs \in [0..(B - 1) -> XKinds] :
               \A b \in 0..(B - 2) : xs[b] = "eye"} : B \in 1..MaxBatch}

BatchSize(xs) == Cardinality(DOMAIN xs)

\* mean_z, var_z of encode: one row per sample
MeanOf(xs) == [b \in DOMAIN xs |-> <<"mean", xs[b]>>]

VarOf(xs) == [b \in DOMAIN xs |-> <<"var", xs[b]>>]

\* q = self.amor_q(h): one row of `len` entries per sample
AmorQ(xs, len, rows, cols) ==
    [b \in DOMAIN xs |-> [n \in 0..(len - 1) |-> QVal(xs[b], n, rows, cols)]]

\* q.view(-1, cols) of a contiguous (B, len) tensor: row r, column n is the
\* element at flat offset r * cols + n
View2(q, len, cols) ==
    [r \in 0..(((Cardinality(DOMAIN q) * len) \div cols) - 1) |->
        [n \in 0..(cols - 1) |->
            LET off == r * cols + n IN q[off \div len][off % len]]]

\* the output of an amortization layer (amor_d, amor_diag1, amor_diag2,
\* amor_b) on a batch of B samples: element n of row b is the value
\* <<name, b, n>>, len values per sample
AmorOut(name, B, len) ==
    [b \in 0..(B - 1) |-> [n \in 0..(len - 1) |-> <<name, b, n>>]]

\* the value 0 of a tensor of such values
Zero == <<"zero", 0, 0>>

\* t.resize(B, N, N, K) of a contiguous (B, N * N * K) tensor
Resize4(t, N, K) ==
    [b \in DOMAIN t |-> [i \in 0..(N - 1) |-> [j \in 0..(N - 1) |->
        [kk \in 0..(K - 1) |-> t[b][(i * N + j) * K + kk]]]]]

\* t.resize(B, N, K) of a contiguous (B, N * K) tensor
Resize3(t, N, K) ==
    [b \in DOMAIN t |-> [i \in 0..(N - 1) |->
        [kk \in 0..(K - 1) |-> t[b][i * K + kk]]]]

\* b.resize(B, 1, N, K) of a contiguous (B, N * K) tensor
ResizeB(t, N, K) ==
    [b \in DOMAIN t |-> [o \in {0} |-> [i \in 0..(N - 1) |->
        [kk \in 0..(K - 1) |-> t[b][i * K + kk]]]]]

\* a mask that keeps the entries below the diagonal
TriuMaskLower(N) ==
    [i \in 0..(N - 1) |-> [j \in 0..(N - 1) |-> IF j < i THEN 1 ELSE 0]]

\* torch.triu(torch.ones(N, N), diagonal=1): 1 strictly above the diagonal
TriuMask(N) ==
    [i \in 0..(N - 1) |-> [j \in 0..(N - 1) |-> IF j > i THEN 1 ELSE 0]]

\* the product of a value with an entry of the mask
MulMask(v, m) == IF m = 1 THEN v ELSE Zero

\* r1 = full_d * triu_mask; r1[:, diag_idx, diag_idx, :] = diag1
R1Of(full_d, diag1, N, K) ==
    [b \in DOMAIN full_d |-> [i \in 0..(N - 1) |-> [j \in 0..(N - 1) |->
        [kk \in 0..(K - 1) |->
            IF i = j THEN diag1[b][i][kk]
            ELSE MulMask(full_d[b][i][j][kk], TriuMask(N)[i][j])]]]]

\* an r2 built from full_d without the transposition
R2OfUntransposed(full_d, diag2, N, K) ==
    [b \in DOMAIN full_d |-> [i \in 0..(N - 1) |-> [j \in 0..(N - 1) |->
        [kk \in 0..(K - 1) |->
            IF i = j THEN diag2[b][i][kk]
            ELSE MulMask(full_d[b][i][j][kk], TriuMask(N)[i][j])]]]]

\* r2 = full_d.transpose(2, 1) * triu_mask; r2[:, diag_idx, diag_idx, :] = diag2
R2Of(full_d, diag2, N, K) ==
    [b \in DOMAIN full_d |-> [i \in 0..(N - 1) |-> [j \in 0..(N - 1) |->
        [kk \in 0..(K - 1) |->
            IF i = j THEN diag2[b][i][kk]
            ELSE MulMask(full_d[b][j][i][kk], TriuMask(N)[i][j])]]]]

\* encode of the Sylvester models: the base distribution's parameters and the
\* amortized r1, r2, q, b; N is the size of r1 and r2 (num_ortho_vecs in the
\* Orthogonal model, z_size in the others), q the output of amor_q
SylvesterEncode(xs, N, K, q) ==
    LET B      == BatchSize(xs)
        full_d == Resize4(AmorOut("amor_d", B, K * N * N), N, K)
        diag1  == Resize3(AmorOut("amor_diag1", B, K * N), N, K)
        diag2  == Resize3(AmorOut("amor_diag2", B, K * N), N, K)
    IN  [z_mu |-> MeanOf(xs), z_var |-> VarOf(xs),
         r1 |-> R1Of(full_d, diag1, N, K), r2 |-> R2Of(full_d, diag2, N, K),
         q |-> q, b |-> ResizeB(AmorOut("amor_b", B, K * N), N, K)]

\* a slice that takes flow index 0 at every step
SliceFirst(t, kk) ==
    [b \in DOMAIN t |-> [i \in DOMAIN t[b] |-> [j \in DOMAIN t[b][i] |->
        t[b][i][j][0]]]]

\* t[:, :, :, k]
SliceK(t, kk) ==
    [b \in DOMAIN t |-> [i \in DOMAIN t[b] |-> [j \in DOMAIN t[b][i] |->
        t[b][i][j][kk]]]]

\* self.reparameterize(mu, var): eps.mul(std).add_(mu), eps the sampled noise
Reparameterize(mu, var, eps) == eps

\* self.decode(z)
Decode(zz) == <<"dec", zz>>

\* VAE.forward: encode, sample, decode; self.log_det_j is returned as stored
VAEForwardResult(xs, eps, ldj) ==
    LET zz == Reparameterize(MeanOf(xs), VarOf(xs), eps)
    IN  <<Decode(zz), MeanOf(xs), VarOf(xs), ldj, zz, zz>>

\* a forward that adds to the stored accumulator before returning it
VAEForwardAccumulating(xs, eps) ==
    /\ Callable
    /\ self.cls = "VAE"
    /\ x' = xs
    /\ enc' = [NoEnc EXCEPT !.z_mu = MeanOf(xs), !.z_var = VarOf(xs)]
    /\ z' = <<Reparameterize(MeanOf(xs), VarOf(xs), eps)>>
    /\ trace' = <<"sample", "decode">>
    /\ calls' = << >>
    /\ log_det_j' = log_det_j + 1
    /\ ret' = VAEForwardResult(xs, eps, log_det_j')
    /\ pc' = "returned"
    /\ UNCHANGED <<self, amat, s, norms, max_norm, q_ortho, k>>
    /\ UNCHANGED mainvars

VAEForward(xs, eps) ==
    /\ Callable
    /\ self.cls = "VAE"
    /\ x' = xs
    /\ enc' = [NoEnc EXCEPT !.z_mu = MeanOf(xs), !.z_var = VarOf(xs)]
    /\ z' = <<Reparameterize(MeanOf(xs), VarOf(xs), eps)>>
    /\ trace' = <<"sample", "decode">>
    /\ calls' = << >>
    /\ ret' = VAEForwardResult(xs, eps, log_det_j)
    /\ pc' = "returned"
    /\ UNCHANGED <<self, log_det_j, amat, s, norms, max_norm, q_ortho, k>>
    /\ UNCHANGED mainvars

(***************************************************************************)
(* OrthogonalSylvesterVAE.forward and batch_construct_orthogonal.          *)
(***************************************************************************)
\* max_norm <= self.cond and max_norm > self.cond: both are false of NaN
Leq(n, cond) == ~n.nan /\ n.v <= (cond * Scale) \div Micro

Gt(n, cond) == ~n.nan /\ n.v > (cond * Scale) \div Micro

RECURSIVE MaxF(_, _)
\* the largest of f[0].v, ..., f[n-1].v (n >= 1)
MaxF(f, n) ==
    IF n = 1 THEN f[0].v
    ELSE LET m == MaxF(f, n - 1) IN IF f[n - 1].v > m THEN f[n - 1].v ELSE m

\* torch.max(norms): NaN when an element is NaN
TorchMax(ns) ==
    IF \E r \in DOMAIN ns : ns[r].nan THEN NaNNum
    ELSE Num(MaxF(ns, Cardinality(DOMAIN ns)))

\* forward up to the loop of batch_construct_orthogonal: reset of the
\* accumulator, encode, q.view, normalization.  view(-1, n) of a tensor without
\* elements (num_flows = 0) raises
OrthoForwardBegin(xs) ==
    /\ Callable
    /\ self.cls = "OrthogonalSylvesterVAE"
    /\ LET Z == self.z_size
           M == self.num_ortho_vecs
           K == self.num_flows
           q == AmorQ(xs, K * Z * M, Z, M)
           rows == View2(q, K * Z * M, Z * M)
       IN  /\ log_det_j' = 0
           /\ x' = xs
           /\ enc' = SylvesterEncode(xs, M, K, q)
           /\ IF K = 0
              THEN /\ amat' = << >>
                   /\ pc' = "raised"
              ELSE /\ amat' = [r \in DOMAIN rows |-> NormalizeRow(rows[r], Z, M)]
                   /\ pc' = "ortho"
    /\ s' = 0
    /\ norms' = << >>
    /\ max_norm' = Num(0)
    /\ q_ortho' = << >>
    /\ z' = << >>
    /\ k' = 0
    /\ calls' = << >>
    /\ trace' = << >>
    /\ ret' = NoRet
    /\ UNCHANGED self
    /\ UNCHANGED mainvars

\* whether the loop of batch_construct_orthogonal ends after an iteration
\* that was the done-th and measured max_norm mx
\* a loop without the break: it ends at the cap only
LoopEndsAtCapOnly(mx, done, cond, steps) == done = steps

LoopEnds(mx, done, cond, steps) == Leq(mx, cond) \/ done = steps

\* one iteration of the loop of batch_construct_orthogonal: the update, the
\* convergence test, the break
OrthoStep ==
    /\ pc = "ortho"
    /\ amat' = [r \in DOMAIN amat |->
                  IF amat[r].nan THEN amat[r]
                  ELSE [nan |-> FALSE,
                        m |-> OrthoUpdate(amat[r].m, self.z_size, self.num_ortho_vecs)]]
    /\ norms' = [r \in DOMAIN amat |->
                  IF amat'[r].nan THEN NaNNum
                  ELSE Num(OrthoError(amat'[r].m, self.z_size, self.num_ortho_vecs))]
    /\ max_norm' = TorchMax(norms')
    /\ s' = s + 1
    /\ pc' = IF LoopEnds(max_norm', s + 1, self.cond, self.steps)
             THEN "ortho_exit" ELSE "ortho"
    /\ UNCHANGED <<self, log_det_j, x, enc, q_ortho, z, k, calls, trace, ret>>
    /\ UNCHANGED mainvars

\* the test after the loop: whether batch_construct_orthogonal raises ValueError
OrthoRaises(mx, cond) == Gt(mx, cond)

\* amat.view(-1, num_flows, z_size, m).transpose(0, 1): [k][b] is row b * K + k
ByFlow(a, K) ==
    [kk \in 0..(K - 1) |->
        [b \in 0..((Cardinality(DOMAIN a) \div K) - 1) |-> a[b * K + kk]]]

\* after the loop: the ValueError, or the reshaping, the return into forward
\* and the sampling of z_0
OrthoForwardResume(eps) ==
    /\ pc = "ortho_exit"
    /\ IF OrthoRaises(max_norm, self.cond)
       THEN /\ pc' = "raised"
            /\ UNCHANGED <<q_ortho, z, trace>>
       ELSE /\ q_ortho' = ByFlow(amat, self.num_flows)
            /\ z' = <<Reparameterize(enc.z_mu, enc.z_var, eps)>>
            /\ trace' = <<"sample">>
            /\ pc' = "flow"
    /\ UNCHANGED <<self, log_det_j, x, enc, amat, s, norms, max_norm, k, calls, ret>>
    /\ UNCHANGED mainvars

\* an accumulator that is overwritten (=) instead of added to (+=)
AccumulateOverwrite(acc, ldj) == ldj

\* self.log_det_j += log_det_jacobian
Accumulate(acc, ldj) == acc + ldj

\* the record of one call flow_k(z[k], r1[:, :, :, k], r2[:, :, :, k], q,
\* b[:, :, :, k], permute_z) and of what it returned
FlowCall(kk, zin, r1, r2, q, b, permute, zout, ldj) ==
    [k |-> kk, z_in |-> zin, r1 |-> r1, r2 |-> r2, q |-> q, b |-> b,
     permute_z |-> permute, z_out |-> zout, ldj |-> ldj]

\* every flow step reads z[0]
ZAtFirst(zs, kk) == zs[1]

\* z[k] of the Python list z
ZAt(zs, kk) == zs[kk + 1]

\* one iteration of the flow loop of OrthogonalSylvesterVAE.forward
OrthoFlowStep(out) ==
    /\ pc = "flow"
    /\ self.cls = "OrthogonalSylvesterVAE"
    /\ k < self.num_flows
    /\ calls' = Append(calls, FlowCall(k, ZAt(z, k), SliceK(enc.r1, k), SliceK(enc.r2, k),
                                       q_ortho[k], SliceK(enc.b, k), NoPermute,
                                       out.z, out.ldj))
    /\ z' = Append(z, out.z)
    /\ log_det_j' = Accumulate(log_det_j, out.ldj)
    /\ trace' = Append(trace, "flow")
    /\ k' = k + 1
    /\ UNCHANGED <<self, pc, x, enc, amat, s, norms, max_norm, q_ortho, ret>>
    /\ UNCHANGED mainvars

\* a return statement with z[-1] and z[0] exchanged
SylvesterResultSwapped(e, zs, ldj) ==
    <<Decode(zs[Len(zs)]), e.z_mu, e.z_var, ldj, zs[Len(zs)], zs[1]>>

\* the end of a Sylvester forward: decode z[-1], return the 6-tuple
SylvesterResult(e, zs, ldj) ==
    <<Decode(zs[Len(zs)]), e.z_mu, e.z_var, ldj, zs[1], zs[Len(zs)]>>

OrthoForwardReturn ==
    /\ pc = "flow"
    /\ self.cls = "OrthogonalSylvesterVAE"
    /\ k = self.num_flows
    /\ trace' = Append(trace, "decode")
    /\ ret' = SylvesterResult(enc, z, log_det_j)
    /\ pc' = "returned"
    /\ UNCHANGED <<self, log_det_j, x, enc, amat, s, norms, max_norm, q_ortho, z, k, calls>>
    /\ UNCHANGED mainvars

(***************************************************************************)
(* HouseholderSylvesterVAE.forward and batch_construct_orthogonal.         *)
(***************************************************************************)
\* self._eye - 2 * vvT for one normalized vector v of length Z
HouseholderMat(v, Z) ==
    [i \in 0..(Z - 1) |-> [j \in 0..(Z - 1) |->
        (IF i = j THEN Scale ELSE 0) - 2 * FMul(v[i], v[j])]]

RECURSIVE HouseProductRight(_, _, _, _, _)
\* a loop that multiplies from the right: tmp = bmm(tmp, amat[:, k])
HouseProductRight(hs, h, tmp, H, Z) ==
    IF h = H THEN tmp
    ELSE HouseProductRight(hs, h + 1, Bmm(tmp, hs[h], Z, Z, Z), H, Z)

RECURSIVE HouseProduct(_, _, _, _, _)
\* tmp = amat[:, 0]; for k in range(1, num_householder): tmp = bmm(amat[:, k], tmp)
\* hs[h] is amat[g, h] of one group g; from step h on, tmp being the product so far
HouseProduct(hs, h, tmp, H, Z) ==
    IF h = H THEN tmp
    ELSE HouseProduct(hs, h + 1, Bmm(hs[h], tmp, Z, Z, Z), H, Z)

\* batch_construct_orthogonal of HouseholderSylvesterVAE: rows[t] are the rows
\* of q.view(-1, z_size); group g = b * K + k owns rows g * H .. g * H + H - 1
HouseholderBatch(rows, H, Z) ==
    [g \in 0..((Cardinality(DOMAIN rows) \div H) - 1) |->
        LET v  == [h \in 0..(H - 1) |-> NormalizeRow(rows[g * H + h], 1, Z)]
            hs == [h \in 0..(H - 1) |-> HouseholderMat(v[h].m[0], Z)]
        IN  IF \E h \in 0..(H - 1) : v[h].nan THEN NaNMat(Z, Z)
            ELSE [nan |-> FALSE, m |-> HouseProduct(hs, 1, hs[0], H, Z)]]

\* forward up to the flow loop: reset of the accumulator, encode, the
\* Householder matrices, the sampling of z_0
HouseForwardBegin(xs, eps) ==
    /\ Callable
    /\ self.cls = "HouseholderSylvesterVAE"
    /\ LET Z == self.z_size
           H == self.num_householder
           K == self.num_flows
           q == AmorQ(xs, K * Z * H, 1, Z)
           rows == View2(q, K * Z * H, Z)
           e == SylvesterEncode(xs, Z, K, q)
       IN  /\ log_det_j' = 0
           /\ x' = xs
           /\ enc' = e
           /\ IF K = 0
              THEN /\ amat' = << >>
                   /\ q_ortho' = << >>
                   /\ z' = << >>
                   /\ trace' = << >>
                   /\ pc' = "raised"
              ELSE /\ amat' = HouseholderBatch(rows, H, Z)
                   /\ q_ortho' = ByFlow(amat', K)
                   /\ z' = <<Reparameterize(e.z_mu, e.z_var, eps)>>
                   /\ trace' = <<"sample">>
                   /\ pc' = "flow"
    /\ s' = 0
    /\ norms' = << >>
    /\ max_norm' = Num(0)
    /\ k' = 0
    /\ calls' = << >>
    /\ ret' = NoRet
    /\ UNCHANGED self
    /\ UNCHANGED mainvars

\* one iteration of the flow loop of HouseholderSylvesterVAE.forward
HouseFlowStep(out) ==
    /\ pc = "flow"
    /\ self.cls = "HouseholderSylvesterVAE"
    /\ k < self.num_flows
    /\ calls' = Append(calls, FlowCall(k, ZAt(z, k), SliceK(enc.r1, k), SliceK(enc.r2, k),
                                       q_ortho[k], SliceK(enc.b, k), NoPermute,
                                       out.z, out.ldj))
    /\ z' = Append(z, out.z)
    /\ log_det_j' = Accumulate(log_det_j, out.ldj)
    /\ trace' = Append(trace, "flow")
    /\ k' = k + 1
    /\ UNCHANGED <<self, pc, x, enc, amat, s, norms, max_norm, q_ortho, ret>>
    /\ UNCHANGED mainvars

HouseForwardReturn ==
    /\ pc = "flow"
    /\ self.cls = "HouseholderSylvesterVAE"
    /\ k = self.num_flows
    /\ trace' = Append(trace, "decode")
    /\ ret' = SylvesterResult(enc, z, log_det_j)
    /\ pc' = "returned"
    /\ UNCHANGED <<self, log_det_j, x, enc, amat, s, norms, max_norm, q_ortho, z, k, calls>>
    /\ UNCHANGED mainvars

(***************************************************************************)
(* TriangularSylvesterVAE.forward.                                         *)
(***************************************************************************)
\* the permutation on the even steps instead of the odd ones
PermuteForEven(kk, flip_idx) ==
    IF kk % 2 = 0 THEN [none |-> FALSE, idx |-> flip_idx] ELSE NoPermute

\* permute_z of flow step k: self.flip_idx when k % 2 == 1, else None
PermuteFor(kk, flip_idx) ==
    IF kk % 2 = 1 THEN [none |-> FALSE, idx |-> flip_idx] ELSE NoPermute

\* a forward that keeps the accumulator of the call before it
TriForwardBeginNoReset(xs, eps) ==
    /\ Callable
    /\ self.cls = "TriangularSylvesterVAE"
    /\ log_det_j' = log_det_j
    /\ x' = xs
    /\ enc' = SylvesterEncode(xs, self.z_size, self.num_flows, << >>)
    /\ z' = <<Reparameterize(MeanOf(xs), VarOf(xs), eps)>>
    /\ trace' = <<"sample">>
    /\ pc' = "flow"
    /\ amat' = << >>
    /\ q_ortho' = << >>
    /\ s' = 0
    /\ norms' = << >>
    /\ max_norm' = Num(0)
    /\ k' = 0
    /\ calls' = << >>
    /\ ret' = NoRet
    /\ UNCHANGED self
    /\ UNCHANGED mainvars

\* forward up to the flow loop: reset of the accumulator, encode, the
\* sampling of z_0
TriForwardBegin(xs, eps) ==
    /\ Callable
    /\ self.cls = "TriangularSylvesterVAE"
    /\ log_det_j' = 0
    /\ x' = xs
    /\ enc' = SylvesterEncode(xs, self.z_size, self.num_flows, << >>)
    /\ z' = <<Reparameterize(MeanOf(xs), VarOf(xs), eps)>>
    /\ trace' = <<"sample">>
    /\ pc' = "flow"
    /\ amat' = << >>
    /\ q_ortho' = << >>
    /\ s' = 0
    /\ norms' = << >>
    /\ max_norm' = Num(0)
    /\ k' = 0
    /\ calls' = << >>
    /\ ret' = NoRet
    /\ UNCHANGED self
    /\ UNCHANGED mainvars

\* one iteration of the flow loop of TriangularSylvesterVAE.forward
TriFlowStep(out) ==
    /\ pc = "flow"
    /\ self.cls = "TriangularSylvesterVAE"
    /\ k < self.num_flows
    /\ calls' = Append(calls, FlowCall(k, ZAt(z, k), SliceK(enc.r1, k), SliceK(enc.r2, k),
                                       << >>, SliceK(enc.b, k),
                                       PermuteFor(k, self.flip_idx), out.z, out.ldj))
    /\ z' = Append(z, out.z)
    /\ log_det_j' = Accumulate(log_det_j, out.ldj)
    /\ trace' = Append(trace, "flow")
    /\ k' = k + 1
    /\ UNCHANGED <<self, pc, x, enc, amat, s, norms, max_norm, q_ortho, ret>>
    /\ UNCHANGED mainvars

TriForwardReturn ==
    /\ pc = "flow"
    /\ self.cls = "TriangularSylvesterVAE"
    /\ k = self.num_flows
    /\ trace' = Append(trace, "decode")
    /\ ret' = SylvesterResult(enc, z, log_det_j)
    /\ pc' = "returned"
    /\ UNCHANGED <<self, log_det_j, x, enc, amat, s, norms, max_norm, q_ortho, z, k, calls>>
    /\ UNCHANGED mainvars

\* forward has returned or raised: its frame is dropped, the object stays as
\* it is and may be called again
ForwardExit ==
    /\ pc \in {"returned", "raised"}
    /\ pc' = "idle"
    /\ x' = << >>
    /\ enc' = NoEnc
    /\ amat' = << >>
    /\ s' = 0
    /\ norms' = << >>
    /\ max_norm' = Num(0)
    /\ q_ortho' = << >>
    /\ z' = << >>
    /\ k' = 0
    /\ calls' = << >>
    /\ trace' = << >>
    /\ ret' = NoRet
    /\ UNCHANGED <<self, log_det_j>>
    /\ UNCHANGED mainvars

(***************************************************************************)
(* The models of models/vae.py: construction, then any sequence of forward *)
(* calls.                                                                  *)
(***************************************************************************)
MainIdle ==
    /\ margs = << >>
    /\ mpc = "none"
    /\ model = "none"
    /\ optimizer = << >>
    /\ merr = "none"

Init ==
    /\ self = NoSelf
    /\ log_det_j = 0
    /\ pc = "new"
    /\ IdleLocals
    /\ MainIdle

Next ==
    \/ \E args \in CtorArgs : VAEInit(args)
    \/ \E args \in CtorArgs : OrthoInit(args)
    \/ \E args \in CtorArgs : HouseInit(args)
    \/ \E args \in CtorArgs : TriInit(args)
    \/ \E xs \in Batches, eps \in ZVals : VAEForward(xs, eps)
    \/ \E xs \in Batches : OrthoForwardBegin(xs)
    \/ OrthoStep
    \/ \E eps \in ZVals : OrthoForwardResume(eps)
    \/ \E out \in FlowOuts : OrthoFlowStep(out)
    \/ OrthoForwardReturn
    \/ \E xs \in Batches, eps \in ZVals : HouseForwardBegin(xs, eps)
    \/ \E out \in FlowOuts : HouseFlowStep(out)
    \/ HouseForwardReturn
    \/ \E xs \in Batches, eps \in ZVals : TriForwardBegin(xs, eps)
    \/ \E out \in FlowOuts : TriFlowStep(out)
    \/ TriForwardReturn
    \/ ForwardExit

Spec == Init /\ [][Next]_vars

(***************************************************************************)
(* Properties of the model classes (specification Spec).                   *)
(***************************************************************************)
Sylvester == {"OrthogonalSylvesterVAE", "HouseholderSylvesterVAE",
              "TriangularSylvesterVAE"}

\* forward is inside or past its flow loop
InFlowLoop == pc \in {"flow", "returned"}

RECURSIVE SumLdj(_, _)
\* the sum of the log-determinants the first n flow calls returned
SumLdj(cs, n) == IF n = 0 THEN 0 ELSE SumLdj(cs, n - 1) + cs[n].ldj

\* C1: whatever the input and however many forward calls came before, the
\* log_det_jacobian VAE.forward returns is exactly 0, and the stored
\* self.log_det_j of a VAE is never written
C1_IdentityLogDet ==
    (self.cls = "VAE" /\ pc # "new") =>
        /\ log_det_j = 0
        /\ (pc = "returned" => ret[4] = 0)

\* a VAE.forward has returned its tuple
C1_Witness ==
    /\ self.cls = "VAE"
    /\ pc = "returned"
    /\ ret[1] = Decode(1)
    /\ BatchSize(x) = MaxBatch

\* C2: in the three Sylvester models the accumulated log-determinant is, at
\* every point of the flow loop, the sum of the log-determinants the flow
\* steps made so far have returned, and the value forward returns is the sum
\* over all K = num_flows steps (0 when K = 0)
C2_LogDetAdditivity ==
    (self.cls \in Sylvester /\ InFlowLoop) =>
        /\ log_det_j = SumLdj(calls, Len(calls))
        /\ (pc = "returned" =>
               /\ Len(calls) = self.num_flows
               /\ ret[4] = SumLdj(calls, self.num_flows))

\* a Householder forward with two flow steps of log-determinants -1 and 2 has
\* returned their sum
C2_Witness ==
    /\ self.cls = "HouseholderSylvesterVAE"
    /\ pc = "returned"
    /\ Len(calls) = 2
    /\ calls[1].ldj = -1
    /\ calls[2].ldj = 2
    /\ ret[4] = 1

\* C3: a Sylvester forward samples z_0 once, then makes the flow steps
\* k = 0, 1, ..., K-1 in this order, step 0 receiving z_0 and step k the
\* output of step k-1, and calls the decoder once, after the last step, on
\* the output of the last step (on z_0 when K = 0)
C3_SequentialPass ==
    (self.cls \in Sylvester /\ InFlowLoop) =>
        /\ Len(calls) = k
        /\ k <= self.num_flows
        /\ Len(z) = k + 1
        /\ trace = <<"sample">> \o [i \in 1..k |-> "flow"]
                      \o (IF pc = "returned" THEN <<"decode">> ELSE << >>)
        /\ \A i \in 1..k :
               /\ calls[i].k = i - 1
               /\ calls[i].z_in = (IF i = 1 THEN z[1] ELSE calls[i - 1].z_out)
               /\ z[i + 1] = calls[i].z_out
        /\ (pc = "returned" =>
               /\ k = self.num_flows
               /\ ret[1] = Decode(IF k = 0 THEN z[1] ELSE calls[k].z_out)
               /\ ret[5] = z[1]
               /\ ret[6] = z[k + 1])

\* a Triangular forward of two steps has returned; the first step changed z
C3_Witness ==
    /\ self.cls = "TriangularSylvesterVAE"
    /\ pc = "returned"
    /\ k = 2
    /\ calls[1].z_out # z[1]
    /\ calls[2].z_in = calls[1].z_out
    /\ ret[1] = Decode(calls[2].z_out)

\* C4: when batch_construct_orthogonal left its loop at the iteration cap with
\* an error that was not found to be within the tolerance (a NaN error
\* included), forward does not go on to the flow steps: the ValueError was
\* raised and no matrix came back
C4_CapReachedRaises ==
    (self.cls = "OrthogonalSylvesterVAE" /\ InFlowLoop) =>
        ~(s = self.steps /\ ~Leq(max_norm, self.cond))

\* C5: every matrix Q that OrthogonalSylvesterVAE.forward hands to a flow step
\* is a matrix of the last iteration whose measured error || Q^T Q - I || was
\* within the tolerance self.cond
C5_FlowGetsMeasuredQ ==
    (self.cls = "OrthogonalSylvesterVAE" /\ InFlowLoop) =>
        \A i \in 1..Len(calls) : \A b \in DOMAIN calls[i].q :
            LET r == b * self.num_flows + calls[i].k
            IN  /\ calls[i].q[b] = amat[r]
                /\ Leq(norms[r], self.cond)

\* C7: the constructor of OrthogonalSylvesterVAE fails exactly when
\* num_ortho_vecs <= 0 or num_ortho_vecs > z_size; with a value in 1..z_size
\* the object is built and holds the value it was given
C7_OrthoVecsAsserted ==
    (self.cls = "OrthogonalSylvesterVAE") =>
        /\ (pc = "ctor_failed") <=>
               (self.num_ortho_vecs <= 0 \/ self.num_ortho_vecs > self.z_size)
        /\ (pc # "ctor_failed" =>
               /\ self.num_ortho_vecs \in 1..self.z_size
               /\ self.steps = Steps
               /\ self.cond \in {CondFull, CondPartial})

\* the constructor was given more vectors than z_size and failed
C7_Witness ==
    /\ self.cls = "OrthogonalSylvesterVAE"
    /\ pc = "ctor_failed"
    /\ self.num_ortho_vecs = self.z_size + 1

\* C10: flow step k of TriangularSylvesterVAE.forward gets no permutation when
\* k is even and the reversal z_size-1, ..., 1, 0 when k is odd
C10_PermuteAlternates ==
    (self.cls = "TriangularSylvesterVAE" /\ InFlowLoop) =>
        \A i \in 1..Len(calls) :
            IF calls[i].k % 2 = 0
            THEN calls[i].permute_z = NoPermute
            ELSE calls[i].permute_z =
                     [none |-> FALSE,
                      idx |-> [j \in 0..(self.z_size - 1) |-> self.z_size - 1 - j]]

\* a Triangular model of z_size 2 has made step 0 without and step 1 with the
\* permutation
C10_Witness ==
    /\ self.cls = "TriangularSylvesterVAE"
    /\ self.z_size = 2
    /\ Len(calls) >= 2
    /\ calls[1].permute_z.none
    /\ calls[2].permute_z.idx[0] = 1

\* C11: forward returns the 6-tuple (reconstruction, z_mean, z_var, log_det_j,
\* z_0, z_K) in this order: z_0 is the sample made before any flow step, z_K
\* is the output of the last flow step and the vector that was decoded; with
\* no flow step (a VAE, or K = 0) z_0 and z_K are the same vector
C11_TupleOrder ==
    (pc = "returned") =>
        /\ Len(ret) = 6
        /\ ret[1] = Decode(ret[6])
        /\ ret[2] = [b \in DOMAIN x |-> <<"mean", x[b]>>]
        /\ ret[3] = [b \in DOMAIN x |-> <<"var", x[b]>>]
        /\ ret[4] = log_det_j
        /\ ret[5] = z[1]
        /\ ret[6] = (IF Len(calls) = 0 THEN z[1] ELSE calls[Len(calls)].z_out)
        /\ (self.cls = "VAE" \/ self.num_flows = 0) => ret[5] = ret[6]

\* an Orthogonal forward of two steps has returned a tuple whose z_0 and z_K
\* differ
C11_Witness ==
    /\ self.cls = "OrthogonalSylvesterVAE"
    /\ pc = "returned"
    /\ Len(calls) = 2
    /\ ret[5] = 0
    /\ ret[6] = 1
    /\ ret[1] = Decode(1)

\* the loop of batch_construct_orthogonal has been left
AfterOrthoLoop ==
    /\ self.cls = "OrthogonalSylvesterVAE"
    /\ self.num_flows > 0
    /\ pc \in {"ortho_exit", "flow", "returned", "raised"}

\* C12: the update loop of batch_construct_orthogonal makes at least 1 and at
\* most 100 iterations; an iteration is made only while no earlier iteration
\* left the maximum error over all matrices of the batch within the
\* tolerance, and the loop is left before the cap only on such an error
C12_OrthoLoopBounded ==
    /\ (self.cls = "OrthogonalSylvesterVAE" /\ pc = "ortho") =>
           /\ s < 100
           /\ s > 0 => ~Leq(max_norm, self.cond)
    /\ AfterOrthoLoop =>
           /\ s >= 1
           /\ s <= 100
           /\ s < 100 => Leq(max_norm, self.cond)
           /\ DOMAIN norms = 0..(BatchSize(x) * self.num_flows - 1)
           /\ \A r \in DOMAIN norms : Leq(max_norm, self.cond) => Leq(norms[r], self.cond)
           /\ max_norm.nan \/ \E r \in DOMAIN norms : norms[r] = max_norm

\* the loop was left after more than one and fewer than 100 iterations, on a
\* batch of two samples
C12_Witness ==
    /\ self.cls = "OrthogonalSylvesterVAE"
    /\ pc = "ortho_exit"
    /\ s > 1
    /\ s < 100
    /\ BatchSize(x) = 2
    /\ Leq(max_norm, self.cond)

\* C13: the tolerance of a constructed OrthogonalSylvesterVAE is 1e-5 (10
\* units of 1e-6) exactly when num_ortho_vecs = z_size and 1e-6 otherwise, the
\* iteration cap is 100, and no forward call changes either
C13_ToleranceFixed ==
    (self.cls = "OrthogonalSylvesterVAE" /\ pc \notin {"new", "ctor_failed"}) =>
        /\ self.cond = (IF self.num_ortho_vecs = self.z_size THEN 10 ELSE 1)
        /\ self.steps = 100

\* a model with fewer vectors than z_size has the tolerance 1e-6 after a
\* forward call that returned with a non-zero accumulator
C13_Witness ==
    /\ self.cls = "OrthogonalSylvesterVAE"
    /\ self.num_ortho_vecs < self.z_size
    /\ self.cond = 1
    /\ pc = "idle"
    /\ log_det_j # 0

\* encode has returned in the current forward call of a Sylvester model
Encoded ==
    /\ self.cls \in Sylvester
    /\ pc \in {"ortho", "ortho_exit", "flow", "returned", "raised"}

\* the size of r1 and r2 in the model at hand
RSize ==
    IF self.cls = "OrthogonalSylvesterVAE" THEN self.num_ortho_vecs ELSE self.z_size

\* C14: in the r1 and r2 that encode returns, for every sample b and flow
\* step kk, every entry below the diagonal is 0 and diagonal entry i is the
\* output of amor_diag1 (r1) or amor_diag2 (r2) for sample b, index i, step kk
C14_TriangularR ==
    Encoded =>
        /\ DOMAIN enc.r1 = DOMAIN x
        /\ DOMAIN enc.r2 = DOMAIN x
        /\ \A b \in DOMAIN x : \A i, j \in 0..(RSize - 1) :
               \A kk \in 0..(self.num_flows - 1) :
                   /\ i > j => enc.r1[b][i][j][kk] = Zero
                   /\ i > j => enc.r2[b][i][j][kk] = Zero
                   /\ i = j => enc.r1[b][i][j][kk] =
                                   <<"amor_diag1", b, i * self.num_flows + kk>>
                   /\ i = j => enc.r2[b][i][j][kk] =
                                   <<"amor_diag2", b, i * self.num_flows + kk>>

\* encode of a Triangular model of z_size 2 has returned r1 and r2 for a batch
\* of two samples: 0 below the diagonal, a value of amor_d above it
C14_Witness ==
    /\ self.cls = "TriangularSylvesterVAE"
    /\ self.z_size = 2
    /\ self.num_flows = 2
    /\ pc = "flow"
    /\ BatchSize(x) = 2
    /\ enc.r1[1][1][0][1] = Zero
    /\ enc.r1[1][0][1][1] = <<"amor_d", 1, 3>>
    /\ enc.r2[1][1][1][0] = <<"amor_diag2", 1, 2>>

\* the values of the amortization layers that flow call c got for sample b
CallElems(c, b) ==
    ({c.r1[b][i][j] : i, j \in DOMAIN c.r1[b]}
        \cup {c.r2[b][i][j] : i, j \in DOMAIN c.r2[b]}
        \cup {c.b[b][0][i] : i \in DOMAIN c.b[b][0]}) \ {Zero}

\* the values of the amortization layers that reach a flow step: all of
\* amor_diag1, amor_diag2 and amor_b, and the off-diagonal ones of amor_d
UsedOutputs(B, N, K) ==
    {<<name, b, n>> : name \in {"amor_diag1", "amor_diag2", "amor_b"},
                      b \in 0..(B - 1), n \in 0..(K * N - 1)}
    \cup UNION {{<<"amor_d", b, (i * N + j) * K + kk>> :
                     b \in 0..(B - 1), j \in (0..(N - 1)) \ {i}, kk \in 0..(K - 1)} :
                 i \in 0..(N - 1)}

\* C15: flow step kk gets the slices of flow index kk of r1, r2 and b, and
\* q_ortho[kk] in the Orthogonal and Householder models; row b of a slice
\* holds only values computed from sample b with flow index kk; no value is
\* given to two steps or to two samples, and when all steps are made every
\* value that enters r1, r2 or b has been given to exactly one (sample, step)
C15_SlicesPartition ==
    /\ (self.cls = "OrthogonalSylvesterVAE" /\ pc = "ortho" /\ s = 0) =>
           \A r \in DOMAIN amat :
               LET b  == r \div self.num_flows
                   kk == r % self.num_flows
                   len == self.z_size * self.num_ortho_vecs
               IN  amat[r] = NormalizeRow([n \in 0..(len - 1) |-> enc.q[b][kk * len + n]],
                                          self.z_size, self.num_ortho_vecs)
    /\ (self.cls \in Sylvester /\ InFlowLoop) =>
        /\ \A c \in 1..Len(calls) :
               LET kk == calls[c].k IN
               /\ calls[c].r1 = [b \in DOMAIN x |-> [i \in 0..(RSize - 1) |->
                                    [j \in 0..(RSize - 1) |-> enc.r1[b][i][j][kk]]]]
               /\ calls[c].r2 = [b \in DOMAIN x |-> [i \in 0..(RSize - 1) |->
                                    [j \in 0..(RSize - 1) |-> enc.r2[b][i][j][kk]]]]
               /\ calls[c].b = [b \in DOMAIN x |-> [o \in {0} |->
                                    [i \in 0..(RSize - 1) |-> enc.b[b][0][i][kk]]]]
               /\ (self.cls # "TriangularSylvesterVAE") =>
                      calls[c].q = [b \in DOMAIN x |-> amat[b * self.num_flows + kk]]
               /\ \A b \in DOMAIN x : \A e \in CallElems(calls[c], b) :
                      e[2] = b /\ e[3] % self.num_flows = kk
        /\ \A c, d \in 1..Len(calls) : \A b, bb \in DOMAIN x :
               (c # d \/ b # bb) =>
                   CallElems(calls[c], b) \cap CallElems(calls[d], bb) = {}
        /\ (pc = "returned") =>
               UNION {CallElems(calls[c], b) : c \in 1..Len(calls), b \in DOMAIN x}
                   = UsedOutputs(BatchSize(x), RSize, self.num_flows)

\* an Orthogonal forward of two steps on two samples has returned: step 1 got
\* for sample 1 the values of flow index 1, step 0 those of flow index 0
C15_Witness ==
    /\ self.cls = "OrthogonalSylvesterVAE"
    /\ self.num_ortho_vecs = 2
    /\ pc = "returned"
    /\ Len(calls) = 2
    /\ BatchSize(x) = 2
    /\ calls[2].r1[1][0][1] = <<"amor_d", 1, 3>>
    /\ calls[1].b[1][0][1] = <<"amor_b", 1, 2>>
    /\ calls[2].q[1] = amat[3]

\* the h-th of the num_householder consecutive vectors of length z_size that
\* amor_q gave for sample b and flow step kk, normalized
HouseVector(b, kk, h) ==
    LET Z   == self.z_size
        off == (kk * self.num_householder + h) * Z
    IN  NormalizeRow([j \in 0..(Z - 1) |-> enc.q[b][off + j]], 1, Z)

RECURSIVE HouseChain(_, _, _)
\* H_n . H_(n-1) . ... . H_0 for sample b and flow step kk
HouseChain(b, kk, n) ==
    LET Z == self.z_size
        H == HouseholderMat(HouseVector(b, kk, n).m[0], Z)
    IN  IF n = 0 THEN H ELSE Bmm(H, HouseChain(b, kk, n - 1), Z, Z, Z)

\* C16: the matrix batch_construct_orthogonal of HouseholderSylvesterVAE has
\* returned for sample b and flow step kk is H_(n-1) . ... . H_1 . H_0,
\* n = num_householder, H_h = I - 2 v_h v_h^T built from the h-th normalized
\* vector of that sample and step (H_0 alone when n = 1); it is NaN when one
\* of these vectors is; this matrix is the one flow step kk gets
C16_HouseholderChain ==
    /\ (self.cls = "HouseholderSylvesterVAE" /\ InFlowLoop) =>
           \A c \in 1..Len(calls) : calls[c].q = q_ortho[calls[c].k]
    /\ (self.cls = "HouseholderSylvesterVAE" /\ pc = "flow" /\ k = 0) =>
        /\ DOMAIN q_ortho = 0..(self.num_flows - 1)
        /\ \A kk \in DOMAIN q_ortho :
               /\ DOMAIN q_ortho[kk] = DOMAIN x
               /\ \A b \in DOMAIN x :
                      IF \E h \in 0..(self.num_householder - 1) : HouseVector(b, kk, h).nan
                      THEN q_ortho[kk][b].nan
                      ELSE q_ortho[kk][b] =
                               [nan |-> FALSE,
                                m |-> HouseChain(b, kk, self.num_householder - 1)]

\* a Householder model with two reflections that do not commute has built
\* the matrix of step 0: a rotation, whose off-diagonal entries have opposite
\* signs
C16_Witness ==
    /\ self.cls = "HouseholderSylvesterVAE"
    /\ self.num_householder = 2
    /\ self.z_size = 2
    /\ pc = "flow"
    /\ k = 0
    /\ ~q_ortho[0][0].nan
    /\ q_ortho[0][0].m[0][1] > 0
    /\ q_ortho[0][0].m[1][0] < 0

\* C17: flip_idx of a TriangularSylvesterVAE is the reversal of the latent
\* dimensions: flip_idx[i] = z_size - 1 - i for i in 0..z_size-1, a bijection
\* on 0..z_size-1 that gives the identity when applied twice
C17_FlipIsReversal ==
    (self.cls = "TriangularSylvesterVAE") =>
        LET f == self.flip_idx
            D == 0..(self.z_size - 1)
        IN  /\ DOMAIN f = D
            /\ \A i \in D : f[i] = self.z_size - 1 - i
            /\ {f[i] : i \in D} = D
            /\ \A i, j \in D : f[i] = f[j] => i = j
            /\ \A i \in D : f[f[i]] = i

\* a Triangular model of the largest z_size has been constructed and has made
\* a flow step with the permutation
C17_Witness ==
    /\ self.cls = "TriangularSylvesterVAE"
    /\ self.z_size = MaxZ
    /\ self.flip_idx[0] = MaxZ - 1
    /\ self.flip_idx[MaxZ - 1] = 0
    /\ Len(calls) = 2
    /\ calls[2].permute_z.idx = self.flip_idx

\* a step that enters forward of a Sylvester model
EntersForward ==
    /\ self.cls \in Sylvester
    /\ pc = "idle"
    /\ pc' # "idle"

\* what a forward call of a Sylvester model has returned or left behind
\* depends on this call alone
OwnCallOnly ==
    (self.cls \in Sylvester) =>
        /\ (pc = "returned") =>
               ret[4] = SumLdj(calls, Len(calls)) /\ Len(calls) = self.num_flows
        /\ (pc = "raised") => (log_det_j = 0 /\ calls = << >>)

\* C20: every forward call of a Sylvester model starts by setting the
\* accumulator to 0, whatever the calls before it left there, so the
\* log_det_jacobian it returns is the sum over its own flow steps; a call
\* aborted by an orthogonalization error leaves the accumulator at 0
C20_HistoryIndependent ==
    /\ [][EntersForward => (log_det_j' = 0 /\ calls' = << >>)]_vars
    /\ [](OwnCallOnly)

\* a Sylvester model whose last forward call left a non-zero accumulator is
\* ready to be called again
C20_Witness ==
    /\ self.cls = "OrthogonalSylvesterVAE"
    /\ pc = "idle"
    /\ log_det_j = 4

\* entry (i, j) of full_d for sample b and flow step kk: the output of amor_d
\* at the position that the resize to (B, N, N, K) gives it
FullD(b, i, j, kk) ==
    <<"amor_d", b, (i * RSize + j) * self.num_flows + kk>>

\* the diagonal entries of full_d
FullDDiag ==
    {FullD(b, i, i, kk) : b \in DOMAIN x, i \in 0..(RSize - 1),
                          kk \in 0..(self.num_flows - 1)}

\* the entries of r, a tensor of shape (B, N, N, K)
Entries(r) ==
    {r[b][i][j][kk] : b \in DOMAIN x, i, j \in 0..(RSize - 1),
                      kk \in 0..(self.num_flows - 1)}

\* C21: in the r1 and r2 that encode returns, for i < j the entry (i, j) of
\* r1 is entry (i, j) of full_d and the entry (i, j) of r2 is entry (j, i) of
\* full_d, for the same sample and flow step; no entry of full_d is in both
\* r1 and r2, and no diagonal entry of full_d is in either
C21_UpperFromFullD ==
    Encoded =>
        /\ \A b \in DOMAIN x : \A i, j \in 0..(RSize - 1) :
               \A kk \in 0..(self.num_flows - 1) :
                   i < j =>
                       /\ enc.r1[b][i][j][kk] = FullD(b, i, j, kk)
                       /\ enc.r2[b][i][j][kk] = FullD(b, j, i, kk)
        /\ (Entries(enc.r1) \cap Entries(enc.r2)) \ {Zero} = {}
        /\ (Entries(enc.r1) \cup Entries(enc.r2)) \cap FullDDiag = {}

\* encode of a Householder model of z_size 2 has returned r1 and r2 for a
\* batch of two samples: above the diagonal r1 holds entry (0, 1) of full_d
\* and r2 entry (1, 0)
C21_Witness ==
    /\ self.cls = "HouseholderSylvesterVAE"
    /\ self.z_size = 2
    /\ self.num_flows = 2
    /\ pc = "flow"
    /\ BatchSize(x) = 2
    /\ enc.r1[1][0][1][1] = <<"amor_d", 1, 3>>
    /\ enc.r2[1][0][1][1] = <<"amor_d", 1, 5>>

(***************************************************************************)
(* main_experiment.py: parse_args, init_model, init_optimizer, main.       *)
(* Strings the code takes apart (parameter names, dictionary keys) are     *)
(* sequences of characters.                                                *)
(***************************************************************************)
\* choices of the --flow option
FlowChoices == {"planar", "radial", "iaf", "liniaf", "affine", "nlsq", "realnvp",
                "householder", "orthogonal", "triangular", "no_flow", "boosted"}

\* flow names tried: the parser's choices and two names that are not
FlowNames == FlowChoices \cup {"sylvester", ""}

\* values of --regularization_rate, in units of 0.01
RegRates == {-40, 0, 40}

\* defaults of the parser
DefaultArgs == [flow |-> "no_flow", regularization_rate |-> 40, num_components |-> 2,
                testing |-> TRUE, z_size |-> 64, num_ortho_vecs |-> 8,
                num_householder |-> 8]

\* the command lines tried: every flow name with every regularization rate and
\* both --testing / --validation, and the options of the flow that reads them
CmdLines ==
    LET base == {[DefaultArgs EXCEPT !.flow = f, !.regularization_rate = r, !.testing = t] :
                    f \in FlowNames, r \in RegRates, t \in BOOLEAN}
    IN  UNION {
          IF a.flow = "boosted"
          THEN {[a EXCEPT !.num_components = c] : c \in 1..MaxComponents}
          ELSE IF a.flow = "orthogonal"
          THEN {[a EXCEPT !.z_size = zs, !.num_ortho_vecs = m] :
                    zs \in 1..MaxZ, m \in (-1)..(MaxZ + 1)}
          ELSE IF a.flow = "householder"
          THEN {[a EXCEPT !.num_householder = h] : h \in 0..MaxHouseholder}
          ELSE {a}
          : a \in base}

\* the message of the ValueError of parse_args
RegRateMessage ==
    "For boosting the regularization rate should be greater than or equal to zero."

\* a check that rejects a rate of zero too
RegRateRejectedOrZero(a) == a.flow = "boosted" /\ a.regularization_rate <= 0

\* the check of parse_args on the regularization rate
RegRateRejected(a) == a.flow = "boosted" /\ a.regularization_rate < 0

\* main: args, kwargs = parse_args(main_args).  argparse exits on a --flow
\* outside its choices; parse_args raises ValueError on a rejected rate
ParseArgs(cmd) ==
    /\ mpc = "start"
    /\ margs' = cmd
    /\ IF cmd.flow \notin FlowChoices
       THEN mpc' = "error" /\ merr' = "argparse: invalid choice"
       ELSE IF RegRateRejected(cmd)
       THEN mpc' = "error" /\ merr' = RegRateMessage
       ELSE mpc' = "parsed" /\ merr' = "none"
    /\ UNCHANGED <<model, optimizer>>
    /\ UNCHANGED fwdvars

\* main: the snapshot directory, init_log, load_dataset, torch.save(args)
Setup ==
    /\ mpc = "parsed"
    /\ mpc' = "loaded"
    /\ UNCHANGED <<margs, model, optimizer, merr>>
    /\ UNCHANGED fwdvars

\* a table whose householder branch builds the orthogonal model
InitModelClassCopied(flow) ==
    CASE flow = "no_flow"     -> "VAE"
      [] flow = "boosted"     -> "BoostedVAE"
      [] flow = "planar"      -> "PlanarVAE"
      [] flow = "radial"      -> "RadialVAE"
      [] flow = "liniaf"      -> "LinIAFVAE"
      [] flow = "affine"      -> "AffineVAE"
      [] flow = "nlsq"        -> "NLSqVAE"
      [] flow = "iaf"         -> "IAFVAE"
      [] flow = "realnvp"     -> "RealNVPVAE"
      [] flow = "orthogonal"  -> "OrthogonalSylvesterVAE"
      [] flow = "householder" -> "OrthogonalSylvesterVAE"
      [] flow = "triangular"  -> "TriangularSylvesterVAE"
      [] OTHER                -> "none"

\* the class init_model instantiates for args.flow ("none": no branch taken)
InitModelClass(flow) ==
    CASE flow = "no_flow"     -> "VAE"
      [] flow = "boosted"     -> "BoostedVAE"
      [] flow = "planar"      -> "PlanarVAE"
      [] flow = "radial"      -> "RadialVAE"
      [] flow = "liniaf"      -> "LinIAFVAE"
      [] flow = "affine"      -> "AffineVAE"
      [] flow = "nlsq"        -> "NLSqVAE"
      [] flow = "iaf"         -> "IAFVAE"
      [] flow = "realnvp"     -> "RealNVPVAE"
      [] flow = "orthogonal"  -> "OrthogonalSylvesterVAE"
      [] flow = "householder" -> "HouseholderSylvesterVAE"
      [] flow = "triangular"  -> "TriangularSylvesterVAE"
      [] OTHER                -> "none"

\* whether the constructor of class cls accepts args (the asserts of vae.py)
CtorAccepts(cls, a) ==
    CASE cls = "OrthogonalSylvesterVAE"  -> OrthoVecsValid(a.num_ortho_vecs, a.z_size)
      [] cls = "HouseholderSylvesterVAE" -> a.num_householder > 0
      [] OTHER                           -> TRUE

\* init_model(args): [model, err]
InitModel(a) ==
    LET cls == InitModelClass(a.flow)
    IN  IF cls = "none" THEN [model |-> "none", err |-> "Invalid flow choice"]
        ELSE IF ~CtorAccepts(cls, a) THEN [model |-> "none", err |-> "AssertionError"]
        ELSE [model |-> cls, err |-> "none"]

\* main: model = init_model(args)
InitModelStep ==
    /\ mpc = "loaded"
    /\ model' = InitModel(margs).model
    /\ merr' = InitModel(margs).err
    /\ mpc' = IF InitModel(margs).err = "none" THEN "model" ELSE "error"
    /\ UNCHANGED <<margs, optimizer>>
    /\ UNCHANGED fwdvars

\* init_model(args) called by another script with args of its own
InitModelCall(a) ==
    /\ mpc = "start"
    /\ margs' = a
    /\ model' = InitModel(a).model
    /\ merr' = InitModel(a).err
    /\ mpc' = IF InitModel(a).err = "none" THEN "init_model_returned"
              ELSE "init_model_raised"
    /\ UNCHANGED optimizer
    /\ UNCHANGED fwdvars

(***************************************************************************)
(* init_optimizer.                                                         *)
(***************************************************************************)
Digit(d) == <<"0", "1", "2", "3", "4", "5", "6", "7", "8", "9">>[d + 1]

RECURSIVE Str(_)
\* str(n) / f"{n}" of a natural number: its decimal digits
Str(n) == IF n < 10 THEN <<Digit(n)>> ELSE Str(n \div 10) \o <<Digit(n % 10)>>

\* name.startswith(prefix)
StartsWith(name, prefix) ==
    Len(name) >= Len(prefix) /\ SubSeq(name, 1, Len(prefix)) = prefix

\* name.find(ch): the 0-based index of the first ch, -1 when there is none
Find(name, ch) ==
    IF \E i \in 1..Len(name) : name[i] = ch
    THEN (CHOOSE i \in 1..Len(name) :
              name[i] = ch /\ \A j \in 1..(i - 1) : name[j] # ch) - 1
    ELSE -1

\* name[lo:hi] for 0 <= lo <= hi
Slice(name, lo, hi) ==
    SubSeq(name, lo + 1, IF hi < Len(name) THEN hi ELSE Len(name))

\* component_id of a parameter name: name[(pos + 1):(pos + 2)], pos = name.find(".")
ComponentId(name) ==
    LET pos == Find(name, ".") IN Slice(name, pos + 1, pos + 2)

FlowPrefix == <<"f", "l", "o", "w">>

\* the names of the parameters of the encoder and decoder of VAE
VaeParamNames == <<<<"q", "_", "z", "_", "m", "e", "a", "n", ".", "w", "e", "i", "g", "h", "t">>,
                   <<"p", "_", "x", "_", "m", "e", "a", "n", ".", "0", ".", "b", "i", "a", "s">>>>

\* the names of the flow parameters of component c of a BoostedVAE:
\* flow_param.<c>.weight, flow_param.<c>.bias
FlowParamNames(c) ==
    <<<<"f", "l", "o", "w", "_", "p", "a", "r", "a", "m", ".">> \o Str(c) \o <<".", "w", "e", "i", "g", "h", "t">>,
      <<"f", "l", "o", "w", "_", "p", "a", "r", "a", "m", ".">> \o Str(c) \o <<".", "b", "i", "a", "s">>>>

RECURSIVE FlowParams(_, _)
\* the flow parameters of components c, c + 1, ..., C - 1, in order
FlowParams(c, C) ==
    IF c >= C THEN << >>
    ELSE [i \in 1..2 |-> [name |-> FlowParamNames(c)[i], comp |-> c]] \o FlowParams(c + 1, C)

\* model.named_parameters(): each parameter with its name and, for a flow
\* parameter of a BoostedVAE, the component that owns it (-1: none)
NamedParameters(cls, C) ==
    [i \in 1..2 |-> [name |-> VaeParamNames[i], comp |-> -1]]
    \o (IF cls = "BoostedVAE" THEN FlowParams(0, C) ELSE << >>)

RECURSIVE GroupParams(_, _, _, _)
\* the loop over model.named_parameters() of init_optimizer, from parameter i
\* on: fp is flow_params (a dictionary keyed by f"{c}"), vp is vae_params.
\* A component_id that is no key raises KeyError
GroupParams(params, i, fp, vp) ==
    IF i > Len(params) THEN [flow_params |-> fp, vae_params |-> vp, err |-> "none"]
    ELSE LET name == params[i].name
             cid  == ComponentId(name)
         IN  IF StartsWith(name, FlowPrefix)
             THEN IF cid \in DOMAIN fp
                  THEN GroupParams(params, i + 1,
                                   [fp EXCEPT ![cid] = Append(fp[cid], params[i])], vp)
                  ELSE [flow_params |-> fp, vae_params |-> vp, err |-> "KeyError"]
             ELSE GroupParams(params, i + 1, fp, Append(vp, params[i]))

\* init_optimizer(model, args): the optimizer's parameter groups, in order
InitOptimizer(cls, a) ==
    IF a.flow = "boosted"
    THEN LET C == a.num_components
             fp0 == [key \in {Str(c) : c \in 0..(C - 1)} |-> << >>]
             g == GroupParams(NamedParameters(cls, C), 1, fp0, << >>)
         IN  IF g.err # "none" THEN [groups |-> << >>, err |-> g.err]
             ELSE [groups |-> [c \in 1..C |-> g.flow_params[Str(c - 1)]]
                              \o <<g.vae_params>>,
                   err |-> "none"]
    ELSE [groups |-> <<NamedParameters(cls, a.num_components)>>, err |-> "none"]

\* main: optimizer, scheduler = init_optimizer(model, args)
InitOptimizerStep ==
    /\ mpc = "model"
    /\ optimizer' = InitOptimizer(model, margs).groups
    /\ merr' = InitOptimizer(model, margs).err
    /\ mpc' = IF InitOptimizer(model, margs).err = "none" THEN "optimizer" ELSE "error"
    /\ UNCHANGED <<margs, model>>
    /\ UNCHANGED fwdvars

\* main: train(train_loader, val_loader, model, optimizer, scheduler, args)
Train ==
    /\ mpc = "optimizer"
    /\ mpc' = "trained"
    /\ UNCHANGED <<margs, model, optimizer, merr>>
    /\ UNCHANGED fwdvars

\* main: evaluate(val_loader, final_model, args, results_type='Validation')
Validate ==
    /\ mpc = "trained"
    /\ mpc' = "validated"
    /\ UNCHANGED <<margs, model, optimizer, merr>>
    /\ UNCHANGED fwdvars

\* a test-set evaluation that does not look at args.testing
TestAlways ==
    /\ mpc = "validated"
    /\ mpc' = "tested"
    /\ UNCHANGED <<margs, model, optimizer, merr>>
    /\ UNCHANGED fwdvars

\* main: if args.testing: evaluate_likelihood(test_loader, final_model, ...)
Test ==
    /\ mpc = "validated"
    /\ margs.testing
    /\ mpc' = "tested"
    /\ UNCHANGED <<margs, model, optimizer, merr>>
    /\ UNCHANGED fwdvars

InitMain ==
    /\ self = NoSelf
    /\ log_det_j = 0
    /\ pc = "new"
    /\ IdleLocals
    /\ margs = << >>
    /\ mpc = "start"
    /\ model = "none"
    /\ optimizer = << >>
    /\ merr = "none"

NextMain ==
    \/ \E cmd \in CmdLines : ParseArgs(cmd)
    \/ Setup
    \/ InitModelStep
    \/ \E a \in CmdLines : InitModelCall(a)
    \/ InitOptimizerStep
    \/ Train
    \/ Validate
    \/ Test

SpecMain == InitMain /\ [][NextMain]_vars

(***************************************************************************)
(* Properties of the experiment driver (specification SpecMain).           *)
(***************************************************************************)
\* main is past parse_args: the configuration was accepted
Accepted == mpc \in {"parsed", "loaded", "model", "optimizer", "trained",
                     "validated", "tested"}

\* init_optimizer has returned the optimizer of a boosted model
BoostedOptimizer ==
    /\ mpc \in {"optimizer", "trained", "validated", "tested"}
    /\ margs.flow = "boosted"

\* C6: for a boosted model of C >= 1 components the optimizer's parameter
\* group c holds every flow parameter of component c, and no group holds a
\* flow parameter of a component other than its own
C6_ExactPartition ==
    BoostedOptimizer =>
        /\ \A g \in 1..Len(optimizer) : \A i \in 1..Len(optimizer[g]) :
               optimizer[g][i].comp >= 0 => optimizer[g][i].comp = g - 1
        /\ \A c \in 0..(margs.num_components - 1) : \A n \in 1..2 :
               \E i \in 1..Len(optimizer[c + 1]) :
                   optimizer[c + 1][i] = [name |-> FlowParamNames(c)[n], comp |-> c]

\* C8, as stated: whatever the flow, main builds no model and makes no
\* training step for a configuration with regularization_rate < 0
C8_NegativeRateRejected ==
    (mpc \in {"model", "optimizer", "trained", "validated", "tested"}) =>
        margs.regularization_rate >= 0

\* C8, amended: a configuration with flow = 'boosted' and
\* regularization_rate < 0 does not get past parse_args, and the rate's
\* ValueError is raised only for such a configuration (not for a rate of 0,
\* not for another flow), with no model and no optimizer built
C8_BoostedRateRejected ==
    /\ (Accepted /\ margs.flow = "boosted") => margs.regularization_rate >= 0
    /\ (merr = RegRateMessage) =>
           /\ mpc = "error"
           /\ margs.flow = "boosted"
           /\ margs.regularization_rate < 0
           /\ model = "none"
           /\ optimizer = << >>

\* parse_args has rejected a boosted configuration with a negative rate
C8_Witness ==
    /\ mpc = "error"
    /\ merr = RegRateMessage
    /\ margs.flow = "boosted"
    /\ margs.regularization_rate = -40
    /\ model = "none"

\* C9: init_model has a branch for each of the 12 names the parser accepts,
\* no two names share a class, the names of the models of vae.py build these
\* models; a call that returns has built the class of its flow name, and
\* ValueError('Invalid flow choice') is raised, with no model built, exactly
\* for the names outside the 12
C9_FlowDispatch ==
    /\ \A f \in FlowChoices : InitModelClass(f) # "none"
    /\ \A f, g \in FlowChoices : f # g => InitModelClass(f) # InitModelClass(g)
    /\ InitModelClass("no_flow") = "VAE"
    /\ InitModelClass("orthogonal") = "OrthogonalSylvesterVAE"
    /\ InitModelClass("householder") = "HouseholderSylvesterVAE"
    /\ InitModelClass("triangular") = "TriangularSylvesterVAE"
    /\ (mpc \in {"init_model_returned", "model"} =>
           /\ margs.flow \in FlowChoices
           /\ model = InitModelClass(margs.flow)
           /\ merr = "none")
    /\ (mpc = "init_model_raised" =>
           /\ model = "none"
           /\ (merr = "Invalid flow choice") <=> (margs.flow \notin FlowChoices)
           /\ (margs.flow \in FlowChoices =>
                  /\ merr = "AssertionError"
                  /\ margs.flow \in {"orthogonal", "householder"}))

\* init_model was called with a name outside the 12 and raised
C9_Witness ==
    /\ mpc = "init_model_raised"
    /\ margs.flow = "sylvester"
    /\ merr = "Invalid flow choice"
    /\ model = "none"

\* init_optimizer has returned the optimizer
HasOptimizer == mpc \in {"optimizer", "trained", "validated", "tested"}

\* the number of times parameter p occurs in the optimizer's groups
Occurrences(p) ==
    Cardinality({<<g, i>> \in (1..Len(optimizer)) \X (1..(2 * MaxComponents + 2)) :
                     i <= Len(optimizer[g]) /\ optimizer[g][i] = p})

\* the parts of C18 that do not say which component's parameters a group
\* holds: C + 1 groups, the last one holding the parameters whose names do
\* not start with 'flow', every parameter in exactly one group; one group
\* with all parameters for a flow other than boosted
GroupsShape ==
    LET C  == margs.num_components
        ps == NamedParameters(model, C)
    IN  HasOptimizer =>
            /\ \A n \in 1..Len(ps) : Occurrences(ps[n]) = 1
            /\ \A g \in 1..Len(optimizer) : \A i \in 1..Len(optimizer[g]) :
                   \E n \in 1..Len(ps) : ps[n] = optimizer[g][i]
            /\ IF margs.flow = "boosted"
               THEN /\ Len(optimizer) = C + 1
                    /\ \A i \in 1..Len(optimizer[C + 1]) :
                           ~StartsWith(optimizer[C + 1][i].name, FlowPrefix)
                    /\ \A n \in 1..Len(ps) :
                           ~StartsWith(ps[n].name, FlowPrefix) =>
                               \E i \in 1..Len(optimizer[C + 1]) :
                                   optimizer[C + 1][i] = ps[n]
               ELSE /\ Len(optimizer) = 1
                    /\ optimizer[1] = ps

\* C18: for a boosted model of C components the optimizer has C + 1 groups,
\* group c (c < C) holding the flow parameters of component c and the last
\* group every parameter whose name does not start with 'flow', and every
\* parameter is in exactly one group; for another flow there is one group
\* with all parameters
C18_GroupsInOrder ==
    /\ GroupsShape
    /\ BoostedOptimizer =>
           \A c \in 0..(margs.num_components - 1) :
               {optimizer[c + 1][i] : i \in 1..Len(optimizer[c + 1])}
                   = {[name |-> FlowParamNames(c)[n], comp |-> c] : n \in 1..2}

\* what holds of main's state at each point of its run
MainStateOrder ==
    /\ (mpc = "error") => (merr # "none" /\ optimizer = << >>)
    /\ Accepted => (margs.flow \in FlowChoices /\ ~RegRateRejected(margs))
    /\ (mpc \in {"parsed", "loaded"}) => (model = "none" /\ optimizer = << >>)
    /\ (mpc = "model") => (model # "none" /\ optimizer = << >>)
    /\ HasOptimizer => (model # "none" /\ optimizer # << >> /\ merr = "none")
    /\ (mpc = "tested") => margs.testing
    /\ (mpc = "validated") => (ENABLED Test <=> margs.testing)

\* the steps of main, each after the one before it; nothing after an error
MainStepOrder ==
    /\ (mpc' = "parsed") => (mpc = "start")
    /\ (mpc' = "loaded") => (mpc = "parsed")
    /\ (mpc' = "model") => (mpc = "loaded")
    /\ (mpc' = "optimizer") => (mpc = "model")
    /\ (mpc' = "trained") => (mpc = "optimizer")
    /\ (mpc' = "validated") => (mpc = "trained")
    /\ (mpc' = "tested") => (mpc = "validated")
    /\ (mpc' = "error") => (mpc \in {"start", "loaded", "model"})
    /\ (mpc = "error") => (mpc' = "error")

\* C19: main runs parse_args and its checks, then init_model, then
\* init_optimizer, then train, then the validation evaluation, then the
\* test-set evaluation, the last one exactly when args.testing is set; after
\* an error of parse_args or init_model nothing more runs, so train is not
\* called
C19_MainOrder == [](MainStateOrder) /\ [][MainStepOrder]_vars

\* main has run to the end of the test-set evaluation
C19_Witness ==
    /\ mpc = "tested"
    /\ margs.testing
    /\ model = "TriangularSylvesterVAE"
    /\ optimizer # << >>
    /\ merr = "none"

=============================================================================
